---- MODULE Spec2Model ----
(***************************************************************************)
(* A model of job_scraper.py: the Product-Management title classifier      *)
(* (BaseParser.is_product_management_job), the platform extractors, the    *)
(* dispatcher and the run loop of JobScraper.run_scraper with its          *)
(* persisted files jobs.json and stats.json.                               *)
(*                                                                         *)
(* Python strings are TLA+ strings; `in` on strings is Contains, lower()   *)
(* is Lower, and the regular expressions are written out as the scans      *)
(* they perform.                                                           *)
(***************************************************************************)
EXTENDS Integers, Sequences, FiniteSets, TLC

VARIABLES
    jobs_json,          \* data/jobs.json: the persisted list of postings
    jobs_json_corrupt,  \* TRUE when a write of jobs.json stopped part-way (no valid JSON)
    stats_json,         \* data/stats.json
    today,              \* the day datetime.now() falls on
    pc,                 \* position of run_scraper: idle, loop, merge, save, stats, report, done
    existing_jobs,      \* run_scraper local: dict hash -> posting, in insertion order
    new_jobs,           \* run_scraper local: the accumulated new postings
    idx,                \* run_scraper local: number of companies whose iteration is over
    all_jobs,           \* run_scraper local: the merged list, sorted
    ret,                \* the tuple run_scraper returned, <<>> before it returns
    events,             \* history: scrape and sleep events of the current run
    extracted,          \* history: per company of this run, what its extraction did
    io,                 \* history: outcome of each persistence step of the current run
    prev,               \* history: summary of the previous run (see RunSummary)
    runs,               \* history: number of runs started
    stats_calls,        \* history: number of update_stats calls that appended a record
    cl_title,           \* classifier call: the title argument
    cl_url,             \* classifier call: the url argument
    cl_desc,            \* classifier call: the description argument
    cl_result,          \* "none" before the call, then "true" / "false"
    fn_name,            \* function call: the function applied, "none" when there is none
    fn_args,            \* function call: the tuple of its arguments
    fn_result           \* function call: <<>> before the call, then <<value returned>>

store_vars == <<jobs_json, jobs_json_corrupt, stats_json>>

run_vars == <<today, pc, existing_jobs, new_jobs, idx, all_jobs, ret>>

hist_vars == <<events, extracted, io, prev, runs, stats_calls>>

cl_vars == <<cl_title, cl_url, cl_desc, cl_result>>

call_vars == <<fn_name, fn_args, fn_result>>

vars == <<store_vars, run_vars, hist_vars, cl_vars, call_vars>>

-----------------------------------------------------------------------------
(* Strings *)

Min(a, b) == IF a < b THEN a ELSE b

UpperChars == "ABCDEFGHIJKLMNOPQRSTUVWXYZ"

LowerChars == "abcdefghijklmnopqrstuvwxyz"

DigitChars == "0123456789"

CharAt(s, i) == SubSeq(s, i, i)

CharsOf(s) == {CharAt(s, i) : i \in 1..Len(s)}

\* the characters the regular-expression class \w accepts
WordChars == CharsOf(LowerChars) \cup CharsOf(UpperChars) \cup CharsOf(DigitChars) \cup {"_"}

IsWordChar(c) == c \in WordChars

\* each upper-case letter with its lower-case letter
LowerOf ==
    [c \in CharsOf(UpperChars) |->
        CharAt(LowerChars, CHOOSE i \in 1..Len(UpperChars) : CharAt(UpperChars, i) = c)]

LowerChar(c) == IF c \in DOMAIN LowerOf THEN LowerOf[c] ELSE c

RECURSIVE Lower(_)
\* str.lower()
Lower(s) ==
    IF Len(s) = 0 THEN ""
    ELSE LowerChar(CharAt(s, 1)) \o Lower(SubSeq(s, 2, Len(s)))

\* Python's `p in s` on strings
Contains(s, p) ==
    \E i \in 1..(Len(s) - Len(p) + 1) : SubSeq(s, i, i + Len(p) - 1) = p

\* any(pattern in s for pattern in patterns)
AnyPatternIn(patterns, s) ==
    \E k \in 1..Len(patterns) : Contains(s, patterns[k])

-----------------------------------------------------------------------------
(* BaseParser.is_product_management_job *)

excluded_url_patterns ==
    << "/product-managers/", "/about-product", "/what-is-product", "/product-management-guide",
       "/blog/", "/resources/", "/tools/", "/templates/", "/product-development/",
       "/product/", "/customers/", "/features/", "/stories/", "/case-studies/",
       "/solutions/", "/pricing/", "forbes.com", "techcrunch.com", "medium.com",
       "/company/", "/about/", "/contact/", "/support/", ".pdf", ".jpg", ".png", ".gif" >>

job_url_patterns ==
    << "/jobs/", "/careers/", "/job/", "/career/", "/positions/", "/listing/",
       "/opening/", "/vacancy/", "/role/", "greenhouse.io", "lever.co",
       "workday", "ashbyhq.com" >>

\* the list with a stray empty entry, which every string contains
pm_patterns_with_empty_entry ==
    << "product manager", "product management", "pm,", "- pm", "(pm)",
       "senior pm", "principal pm", "staff pm", "group pm",
       "director of product", "director, product", "director product",
       "head of product", "vp product", "vp of product", "product lead",
       "product owner", "associate pm", "junior pm", "lead pm",
       "product management", "pm -", "pm lead", "pm director", "" >>

pm_patterns ==
    << "product manager", "product management", "pm,", "- pm", "(pm)",
       "senior pm", "principal pm", "staff pm", "group pm",
       "director of product", "director, product", "director product",
       "head of product", "vp product", "vp of product", "product lead",
       "product owner", "associate pm", "junior pm", "lead pm",
       "product management", "pm -", "pm lead", "pm director" >>

exclude_patterns ==
    << "engineer", "engineering manager", "frontend", "backend", "developer",
       "designer", "design", "marketing manager", "sales", "customer success",
       "support", "data analyst", "intern", "qa", "test", "devops",
       "data scientist", "recruiter", "account executive", "content writer",
       "researcher", "research scientist", "technical writer", "program manager",
       "project manager", "operations manager", "business development",
       "partnerships manager", "growth marketing", "strategist", "evangelist" >>

\* re.search(r'\bpm\b', s): "pm" with no word character on either side
PmWordMatch(s) ==
    \E i \in 1..(Len(s) - 1) :
        /\ SubSeq(s, i, i + 1) = "pm"
        /\ (i = 1 \/ ~IsWordChar(CharAt(s, i - 1)))
        /\ (i + 1 = Len(s) \/ ~IsWordChar(CharAt(s, i + 2)))

\* has_pm_in_title: a pattern of pm_patterns occurs in the title, or "pm" is a word of it
has_pm_in_title(title_lower) ==
    AnyPatternIn(pm_patterns, title_lower) \/ PmWordMatch(title_lower)

\* the exclusion loop: some exclude pattern occurs in the title and is not
\* skipped by the "product marketing manager" exception
ExcludedRole(title_lower) ==
    \E k \in 1..Len(exclude_patterns) :
        /\ Contains(title_lower, exclude_patterns[k])
        /\ ~(exclude_patterns[k] = "marketing"
             /\ Contains(title_lower, "product marketing manager"))

\* the classifier without its first loop over excluded_url_patterns
is_product_management_job_without_url_exclusion(title, url, description) ==
    LET url_lower == Lower(url)
        title_lower == Lower(title)
    IN  IF url # "" /\ ~AnyPatternIn(job_url_patterns, url_lower) THEN FALSE
        ELSE IF ~has_pm_in_title(title_lower) THEN FALSE
        ELSE ~ExcludedRole(title_lower)

\* the classifier without the test of job_url_patterns
is_product_management_job_without_inclusion_gate(title, url, description) ==
    LET url_lower == Lower(url)
        title_lower == Lower(title)
    IN  IF AnyPatternIn(excluded_url_patterns, url_lower) THEN FALSE
        ELSE IF ~has_pm_in_title(title_lower) THEN FALSE
        ELSE ~ExcludedRole(title_lower)

is_product_management_job(title, url, description) ==
    LET url_lower == Lower(url)
        title_lower == Lower(title)
    IN  IF AnyPatternIn(excluded_url_patterns, url_lower) THEN FALSE
        ELSE IF url # "" /\ ~AnyPatternIn(job_url_patterns, url_lower) THEN FALSE
        ELSE IF ~has_pm_in_title(title_lower) THEN FALSE
        ELSE ~ExcludedRole(title_lower)

-----------------------------------------------------------------------------
(* Postings and their fingerprint *)

\* date_posted is <<>> for 'Unknown' and <<d>> for a known day d; date_found
\* is the day number of datetime.now(): '%Y-%m-%d' strings order as the days do
DateUnknown == << >>

\* hashlib.md5(...).hexdigest()[:12]: the digest is kept symbolic, a tag on
\* the string that is hashed
Digest(s) == <<"md5", s>>

\* a digest that also takes the url in
create_job_hash_with_url(job) ==
    Digest(job.company \o job.title \o job.location \o job.url)

\* create_job_hash: the digest of company, title and location run together
create_job_hash(job) == Digest(job.company \o job.title \o job.location)

\* job_data as the extractors build it, with job_data['hash'] set
MakeJob(company, title, location, url, date_posted, now) ==
    LET job == [company |-> company, title |-> title, location |-> location,
                url |-> url, date_posted |-> date_posted, date_found |-> now,
                status |-> "active"]
    IN  [company |-> company, title |-> title, location |-> location,
         url |-> url, date_posted |-> date_posted, date_found |-> now,
         status |-> "active", hash |-> create_job_hash(job)]

-----------------------------------------------------------------------------
(* Dispatcher: can_parse of the three parsers and get_parser_for_url *)

AshbyCanParse(url) == Contains(url, "ashbyhq.com")

GreenhouseCanParse(url) == Contains(url, "greenhouse.io")

GenericCanParse(url) == TRUE

\* the list with the fallback in front
parsers_generic_first == <<"GenericParser", "AshbyParser", "GreenhouseParser">>

\* self.parsers, most specific first
parsers == <<"AshbyParser", "GreenhouseParser", "GenericParser">>

can_parse(parser, url) ==
    CASE parser = "AshbyParser" -> AshbyCanParse(url)
      [] parser = "GreenhouseParser" -> GreenhouseCanParse(url)
      [] OTHER -> GenericCanParse(url)

\* the first parser of the list that accepts the url, else the last one
get_parser_for_url(url) ==
    IF \E k \in 1..Len(parsers) : can_parse(parsers[k], url)
    THEN parsers[CHOOSE k \in 1..Len(parsers) :
                    /\ can_parse(parsers[k], url)
                    /\ \A j \in 1..(k - 1) : ~can_parse(parsers[j], url)]
    ELSE parsers[Len(parsers)]

-----------------------------------------------------------------------------
(* AshbyParser.parse_jobs *)

\* re.search(r'ashbyhq\.com/([^/?]+)', url): the leftmost place where
\* "ashbyhq.com/" is followed by a character other than / and ?
OrgStart(url) ==
    LET marker == "ashbyhq.com/"
        hits == {i \in 1..(Len(url) - Len(marker)) :
                    /\ SubSeq(url, i, i + Len(marker) - 1) = marker
                    /\ CharAt(url, i + Len(marker)) \notin {"/", "?"}}
    IN  IF hits = {} THEN 0
        ELSE (CHOOSE i \in hits : \A j \in hits : i <= j) + Len(marker)

RECURSIVE OrgEnd(_, _)
\* the last position of the run of non-/ non-? characters that starts at i
OrgEnd(url, i) ==
    IF i < Len(url) /\ CharAt(url, i + 1) \notin {"/", "?"}
    THEN OrgEnd(url, i + 1)
    ELSE i

org_name(url) == SubSeq(url, OrgStart(url), OrgEnd(url, OrgStart(url)))

RECURSIVE JoinNames(_)
\* ', '.join(names)
JoinNames(names) ==
    IF Len(names) = 0 THEN ""
    ELSE IF Len(names) = 1 THEN names[1]
    ELSE names[1] \o ", " \o JoinNames(Tail(names))

\* the comprehension without its condition
AllNames(names) == names

\* [loc.get('locationName', '') for loc in secondary_locations if loc.get('locationName')]
NonEmptyNames(names) == SelectSeq(names, LAMBDA n : n # "")

\* the location string of one posting: primary, secondaries, workplace type;
\* workplaceType "" stands for an absent or None value
AshbyLocation(job) ==
    LET additional_locs == NonEmptyNames(job.secondaryLocations)
        with_secondary ==
            IF Len(additional_locs) > 0
            THEN job.locationName \o " (+ " \o JoinNames(additional_locs) \o ")"
            ELSE job.locationName
    IN  IF job.workplaceType \notin {"null", ""}
        THEN with_secondary \o " - " \o job.workplaceType
        ELSE with_secondary

AshbyJob(company, org, job, now) ==
    MakeJob(company, job.title, AshbyLocation(job),
            "https://jobs.ashbyhq.com/" \o org \o "/" \o job.id, DateUnknown, now)

RECURSIVE AshbyLoop(_, _, _, _, _)
\* `for job in job_postings` inside the try: a posting that is not well formed
\* (a null title, a null locationName with a workplace type, a posting that
\* is no object) raises, the handler logs, and `return jobs` returns what the
\* loop had appended so far
AshbyLoop(company, org, postings, now, jobs) ==
    IF Len(postings) = 0 THEN jobs
    ELSE IF ~Head(postings).wellformed THEN jobs
    ELSE AshbyLoop(company, org, Tail(postings), now,
            IF is_product_management_job(Head(postings).title, "", "")
            THEN Append(jobs, AshbyJob(company, org, Head(postings), now))
            ELSE jobs)

\* reply.kind: "error" (the request raised, a non-success status, no JSON),
\* "no_board" ('data' or its jobBoard missing), "board" (postings)
AshbyParse(company, url, reply, now) ==
    IF OrgStart(url) = 0 THEN << >>
    ELSE IF reply.kind # "board" THEN << >>
    ELSE AshbyLoop(company, org_name(url), reply.items, now, << >>)

\* whether this extraction hit a transport failure or a malformed response
AshbyFailed(url, reply) ==
    /\ OrgStart(url) # 0
    /\ \/ reply.kind # "board"
       \/ \E k \in 1..Len(reply.items) : ~reply.items[k].wellformed

-----------------------------------------------------------------------------
(* GenericParser.parse_date_text and GenericParser.extract_date_posted *)

\* A date is the day number datetime.toordinal() gives it, and the string
\* strftime('%Y-%m-%d') makes of it stands for that day: <<d>> is a date,
\* <<>> stands for None and for 'Unknown'. The texts of the model keep
\* today - timedelta(...) inside the range of datetime.

Digits == CharsOf(DigitChars)

Letters == CharsOf(LowerChars) \cup CharsOf(UpperChars)

\* the class \s: the texts of the model have no whitespace but the space
Spaces == {" "}

\* whether position i of s holds a character of the set
CharIs(s, i, chars) == i >= 1 /\ i <= Len(s) /\ CharAt(s, i) \in chars

\* whether the word w stands in s from position i on
StartsAt(s, i, w) ==
    i >= 1 /\ i + Len(w) - 1 <= Len(s) /\ SubSeq(s, i, i + Len(w) - 1) = w

RECURSIVE RunEnd(_, _, _)
\* the last position of the run of characters of the set that starts at i,
\* i - 1 when position i holds none
RunEnd(s, i, chars) ==
    IF CharIs(s, i, chars) THEN RunEnd(s, i + 1, chars) ELSE i - 1

DigitValue(c) == (CHOOSE i \in 1..Len(DigitChars) : CharAt(DigitChars, i) = c) - 1

RECURSIVE ToInt(_)
\* int(s) for a string of digits
ToInt(s) ==
    IF Len(s) = 0 THEN 0
    ELSE 10 * ToInt(SubSeq(s, 1, Len(s) - 1)) + DigitValue(CharAt(s, Len(s)))

RECURSIVE Strip(_)
\* str.strip()
Strip(s) ==
    IF CharIs(s, 1, Spaces) THEN Strip(SubSeq(s, 2, Len(s)))
    ELSE IF CharIs(s, Len(s), Spaces) THEN Strip(SubSeq(s, 1, Len(s) - 1))
    ELSE s

NoMatch == [start |-> 0, end |-> 0]

\* the leftmost match among the matches a pattern has at the positions of s
\* (MatchAt[i] is its match at i, NoMatch when it has none there)
Leftmost(s, MatchAt) ==
    IF \E i \in 1..Len(s) : MatchAt[i].start # 0
    THEN MatchAt[CHOOSE i \in 1..Len(s) :
                    /\ MatchAt[i].start # 0
                    /\ \A j \in 1..(i - 1) : MatchAt[j].start = 0]
    ELSE NoMatch

\* `(day|week|month)` at position a: the unit, "" when none stands there
AgoUnit(s, a) ==
    IF StartsAt(s, a, "day") THEN "day"
    ELSE IF StartsAt(s, a, "week") THEN "week"
    ELSE IF StartsAt(s, a, "month") THEN "month"
    ELSE ""

\* `s?` at position b: the position behind it
PluralEnd(s, b) == IF StartsAt(s, b, "s") THEN b + 1 ELSE b

\* `\s+(day|week|month)s?\s+ago` from position j on: the unit and the last
\* position of the match, end 0 when there is no match. a is the position
\* behind the first whitespace, c the one behind the unit and its s, d the
\* one behind the second whitespace.
AgoTail(s, j) ==
    LET AgoWord(a, unit, c, d) ==
            IF a > j /\ unit # "" /\ d > c /\ StartsAt(s, d, "ago")
            THEN [unit |-> unit, end |-> d + 2]
            ELSE [unit |-> "", end |-> 0]
        AgoGap(a, unit, c) == AgoWord(a, unit, c, RunEnd(s, c, Spaces) + 1)
        AgoPlural(a, unit) == AgoGap(a, unit, PluralEnd(s, a + Len(unit)))
        AgoUnitFrom(a) == AgoPlural(a, AgoUnit(s, a))
    IN  AgoUnitFrom(RunEnd(s, j, Spaces) + 1)

\* `(\d+)\s+(day|week|month)s?\s+ago` at position i of the lower-cased s,
\* with at most `most` digits: the digits run up to the whitespace, so the
\* match takes the whole run of digits that starts at i and ends at e
TimeAgoAt(s, i, most) ==
    LET TimeAgoMatch(e, tail) ==
            IF e >= i /\ e - i + 1 <= most /\ tail.end # 0
            THEN [start |-> i, end |-> tail.end,
                  number |-> ToInt(SubSeq(s, i, e)), unit |-> tail.unit]
            ELSE NoMatch
        TimeAgoNumber(e) == TimeAgoMatch(e, AgoTail(s, e + 1))
    IN  TimeAgoNumber(RunEnd(s, i, Digits))

\* re.search of the pattern with \d+ (parse_date_text) or \d{1,2}
\* (extract_date_posted)
TimeAgoSearch(s, most) == Leftmost(s, [i \in 1..Len(s) |-> TimeAgoAt(s, i, most)])

DateSeparators == {"/", "-"}

\* `\d{1,2}[/-]` at position i: the last digit's position, 0 when no match
DayOrMonthEnd(s, i) ==
    IF CharIs(s, i, Digits) /\ CharIs(s, i + 1, DateSeparators) THEN i
    ELSE IF CharIs(s, i, Digits) /\ CharIs(s, i + 1, Digits)
            /\ CharIs(s, i + 2, DateSeparators) THEN i + 1
    ELSE 0

\* `\d{2,4}` at position i: the last digit's position
YearEnd(s, i) == Min(RunEnd(s, i, Digits), i + 3)

\* `(\d{1,2})[/-](\d{1,2})[/-](\d{2,4})` at position i; e1, e2 and e3 are
\* the last positions of the three numbers
AbsoluteDateAt(s, i) ==
    LET AbsoluteMatch(e1, e2, e3) ==
            IF e2 # 0 /\ e3 >= e2 + 3
            THEN [start |-> i, end |-> e3,
                  month |-> SubSeq(s, i, e1), day |-> SubSeq(s, e1 + 2, e2),
                  year |-> SubSeq(s, e2 + 2, e3)]
            ELSE NoMatch
        AbsoluteYear(e1, e2) ==
            AbsoluteMatch(e1, e2, IF e2 = 0 THEN 0 ELSE YearEnd(s, e2 + 2))
        AbsoluteDay(e1) ==
            AbsoluteYear(e1, IF e1 = 0 THEN 0 ELSE DayOrMonthEnd(s, e1 + 2))
    IN  AbsoluteDay(DayOrMonthEnd(s, i))

AbsoluteDateSearch(s) == Leftmost(s, [i \in 1..Len(s) |-> AbsoluteDateAt(s, i)])

\* `(yesterday|today)` at position i
DayWordAt(s, i) ==
    IF StartsAt(s, i, "yesterday") THEN [start |-> i, end |-> i + 8]
    ELSE IF StartsAt(s, i, "today") THEN [start |-> i, end |-> i + 4]
    ELSE NoMatch

DayWordSearch(s) == Leftmost(s, [i \in 1..Len(s) |-> DayWordAt(s, i)])

month_abbreviations ==
    {"jan", "feb", "mar", "apr", "may", "jun", "jul", "aug", "sep", "oct", "nov", "dec"}

\* `(Jan|...|Dec)[a-z]*\s+\d{1,2},?\s+\d{2,4}` at position i of the
\* lower-cased s: b is the position of the day, c the one behind it, d the
\* one behind the comma, e the position of the year
MonthNameAt(s, i) ==
    LET MonthMatch(a, b, c, d, e) ==
            IF /\ \E m \in month_abbreviations : StartsAt(s, i, m)
               /\ b > a
               /\ c > b /\ c - b <= 2
               /\ e > d
               /\ YearEnd(s, e) >= e + 1
            THEN [start |-> i, end |-> YearEnd(s, e)]
            ELSE NoMatch
        MonthYear(a, b, c, d) == MonthMatch(a, b, c, d, RunEnd(s, d, Spaces) + 1)
        MonthComma(a, b, c) ==
            MonthYear(a, b, c, IF StartsAt(s, c, ",") THEN c + 1 ELSE c)
        MonthDay(a, b) == MonthComma(a, b, RunEnd(s, b, Digits) + 1)
        MonthGap(a) == MonthDay(a, RunEnd(s, a, Spaces) + 1)
    IN  MonthGap(RunEnd(s, i + 3, Letters) + 1)

MonthNameSearch(s) == Leftmost(s, [i \in 1..Len(s) |-> MonthNameAt(s, i)])

IsLeapYear(year) == year % 4 = 0 /\ (year % 100 # 0 \/ year % 400 = 0)

DaysInMonth(year, month) ==
    IF month = 2 THEN (IF IsLeapYear(year) THEN 29 ELSE 28)
    ELSE IF month \in {4, 6, 9, 11} THEN 30
    ELSE 31

RECURSIVE DaysBeforeMonth(_, _)
DaysBeforeMonth(year, month) ==
    IF month = 1 THEN 0
    ELSE DaysBeforeMonth(year, month - 1) + DaysInMonth(year, month - 1)

\* whether datetime(year, month, day) is a date; it raises ValueError otherwise
ValidDate(year, month, day) ==
    /\ year >= 1 /\ year <= 9999
    /\ month >= 1 /\ month <= 12
    /\ day >= 1 /\ day <= DaysInMonth(year, month)

\* the days of the years before `year`
DaysBeforeYear(year) ==
    365 * (year - 1) + ((year - 1) \div 4) - ((year - 1) \div 100)
        + ((year - 1) \div 400)

\* datetime(year, month, day).toordinal()
Ordinal(year, month, day) ==
    DaysBeforeYear(year) + DaysBeforeMonth(year, month) + day

\* timedelta(weeks=1), and the days the code takes for a month
DaysPerWeek == 7

DaysPerMonth == 30

\* today - timedelta(...) for the number and the unit of a time-ago match
RelativeDate(match, now) ==
    IF match.unit = "day" THEN <<now - match.number>>
    ELSE IF match.unit = "week" THEN <<now - DaysPerWeek * match.number>>
    ELSE <<now - DaysPerMonth * match.number>>

\* the year of an absolute date: two digits are a year of this century
FullYear(year) == IF Len(year) = 2 THEN ToInt("20" \o year) ELSE ToInt(year)

\* datetime(int(year), int(month), int(day)), None behind a ValueError
AbsoluteDate(year, month, day) ==
    IF ValidDate(year, month, day) THEN <<Ordinal(year, month, day)>> ELSE << >>

\* parse_date_text(date_text) on the day `now`
parse_date_text(date_text, now) ==
    LET ParseMatches(text, time_ago_match, date_match) ==
            IF Contains(text, "today") \/ Contains(text, "0 days ago") THEN <<now>>
            ELSE IF Contains(text, "yesterday") \/ Contains(text, "1 day ago")
            THEN <<now - 1>>
            ELSE IF time_ago_match.start # 0 THEN RelativeDate(time_ago_match, now)
            ELSE IF date_match.start # 0
            THEN AbsoluteDate(FullYear(date_match.year), ToInt(date_match.month),
                              ToInt(date_match.day))
            ELSE << >>
        ParseText(text) ==
            ParseMatches(text, TimeAgoSearch(text, Len(text)),
                         AbsoluteDateSearch(text))
    IN  IF date_text = "" THEN << >> ELSE ParseText(Strip(Lower(date_text)))

\* the matches of date_patterns in element_text, in the order of the list;
\* re.I makes the search one on the lower-cased text
DateMatches(element_text) ==
    LET PatternMatches(lower) ==
            << TimeAgoSearch(lower, 2), DayWordSearch(lower),
               AbsoluteDateSearch(lower), MonthNameSearch(lower) >>
    IN  PatternMatches(Lower(element_text))

\* the first date of a list that is not None, 'Unknown' when there is none
FirstParsed(parsed) ==
    IF \E k \in 1..Len(parsed) : parsed[k] # << >>
    THEN parsed[CHOOSE k \in 1..Len(parsed) :
                    /\ parsed[k] # << >>
                    /\ \A j \in 1..(k - 1) : parsed[j] = << >>]
    ELSE DateUnknown

\* parse_date_text(match.group(0)) for each pattern that matches
ParsedMatches(element_text, matches, now) ==
    [k \in 1..Len(matches) |->
        IF matches[k].start = 0 THEN << >>
        ELSE parse_date_text(SubSeq(element_text, matches[k].start, matches[k].end),
                             now)]

\* extract_date_posted(element) for an element with the text element_text:
\* the date of the first pattern whose match parse_date_text can read
extract_date_posted(element_text, now) ==
    FirstParsed(ParsedMatches(element_text, DateMatches(element_text), now))

-----------------------------------------------------------------------------
(* GreenhouseParser.parse_jobs and GenericParser.parse_jobs *)

\* elements are the candidate elements the selectors found, each given by
\* the texts the markup library returns for it; an element that is not
\* well formed raises inside the per-element try and is skipped

RECURSIVE GreenhouseLoop(_, _, _, _, _)
GreenhouseLoop(company, url, elements, now, jobs) ==
    IF Len(elements) = 0 THEN jobs
    ELSE LET e == Head(elements)
             keep == e.wellformed /\ is_product_management_job(e.title, "", "")
         IN  GreenhouseLoop(company, url, Tail(elements), now,
                IF keep
                THEN Append(jobs, MakeJob(company, e.title, e.location,
                                          IF e.href # "" THEN e.href ELSE url,
                                          DateUnknown, now))
                ELSE jobs)

GreenhouseParse(company, url, reply, now) ==
    IF reply.kind # "page" THEN << >>
    ELSE GreenhouseLoop(company, url, reply.items, now, << >>)

\* job_elements[:50]
ElementCap == 50

GenericTitleShortest == 5

GenericTitleLongest == 200

generic_titles == {"jobs", "careers", "apply", "view all", "see all", "more"}

\* the title test of the generic loop: too short, boilerplate, or too long
GenericTitleSkipped(title) ==
    \/ Len(title) < GenericTitleShortest
    \/ Lower(title) \in generic_titles
    \/ Len(title) > GenericTitleLongest

RECURSIVE GenericLoop(_, _, _, _, _)
GenericLoop(company, url, elements, now, jobs) ==
    IF Len(elements) = 0 THEN jobs
    ELSE LET e == Head(elements)
             keep == /\ e.wellformed
                     /\ ~GenericTitleSkipped(e.title)
                     /\ is_product_management_job(e.title, e.href, e.description)
         IN  GenericLoop(company, url, Tail(elements), now,
                IF keep
                THEN Append(jobs, MakeJob(company, e.title, e.location,
                                          IF e.href # "" THEN e.href ELSE url,
                                          extract_date_posted(e.text, now), now))
                ELSE jobs)

GenericParse(company, url, reply, now) ==
    IF reply.kind # "page" THEN << >>
    ELSE GenericLoop(company, url,
                     SubSeq(reply.items, 1, Min(Len(reply.items), ElementCap)),
                     now, << >>)

\* a transport failure of a markup extractor
PageFailed(reply) == reply.kind # "page"

\* scrape_company_jobs: the parser the dispatcher picks, applied
scrape_company_jobs(company, url, reply, now) ==
    LET parser == get_parser_for_url(url)
    IN  CASE parser = "AshbyParser" -> AshbyParse(company, url, reply, now)
          [] parser = "GreenhouseParser" -> GreenhouseParse(company, url, reply, now)
          [] OTHER -> GenericParse(company, url, reply, now)

ExtractionFailed(url, reply) ==
    IF get_parser_for_url(url) = "AshbyParser"
    THEN AshbyFailed(url, reply)
    ELSE PageFailed(reply)

-----------------------------------------------------------------------------
(* Configuration and the replies of the remote sites *)

\* number of runs of run_scraper the model follows from an initial store
MaxRuns == 1

\* number of runs followed from the empty store by SpecRepeat
MaxRepeatRuns == 2

\* number of update_stats calls SpecStats follows
MaxStatsRuns == 35

\* number of those calls in which stats.json cannot be read
MaxStatsFailures == 1

\* longest list of postings or elements a reply holds
MaxReply == 2

\* the `companies` argument of run_scraper, in the order of the dict
Companies ==
    << [company |-> "OpenAI", url |-> "https://jobs.ashbyhq.com/openai/?d=1"],
       [company |-> "Stripe", url |-> "https://stripe.com/jobs"] >>

SeqsUpTo(S, n) == UNION {[1..k -> S] : k \in 0..n}

\* jobPostings entries of an Ashby reply; the last one has a null title;
\* teamName is team_lookup.get(job.get('teamId', ''), ''), the name the
\* reply's teams give the posting's team
AshbyPostings ==
    { [id |-> "1", title |-> "PM", teamName |-> "Product Management",
       locationName |-> "SF",
       secondaryLocations |-> << >>, workplaceType |-> "", wellformed |-> TRUE],
      [id |-> "3", title |-> "QA Engineer", teamName |-> "Product Management",
       locationName |-> "SF",
       secondaryLocations |-> << >>, workplaceType |-> "", wellformed |-> TRUE],
      [id |-> "4", title |-> "", teamName |-> "",
       locationName |-> "SF",
       secondaryLocations |-> << >>, workplaceType |-> "", wellformed |-> FALSE] }

\* candidate elements of a fetched page
PageElements ==
    { [title |-> "Sr PM", location |-> "NY", href |-> "", description |-> "",
       text |-> "Sr PM NY", wellformed |-> TRUE],
      [title |-> "Designer", location |-> "NY", href |-> "", description |-> "",
       text |-> "Designer NY", wellformed |-> TRUE],
      [title |-> "", location |-> "", href |-> "", description |-> "",
       text |-> "", wellformed |-> FALSE] }

AshbyReplies ==
    {[kind |-> "error", items |-> << >>], [kind |-> "no_board", items |-> << >>]}
    \cup {[kind |-> "board", items |-> s] : s \in SeqsUpTo(AshbyPostings, MaxReply)}

\* the elements of one page are different elements
PageReplies ==
    {[kind |-> "error", items |-> << >>]}
    \cup {[kind |-> "page", items |-> s] :
            s \in {t \in SeqsUpTo(PageElements, MaxReply) :
                      \A i, j \in 1..Len(t) : i # j => t[i] # t[j]}}

RepliesFor(url) ==
    IF get_parser_for_url(url) = "AshbyParser" THEN AshbyReplies ELSE PageReplies

-----------------------------------------------------------------------------
(* Persistence: load_existing_jobs, save_jobs, update_stats *)

\* a dict is the sequence of its values in insertion order, one per key
DictKeys(d) == {d[i].hash : i \in 1..Len(d)}

\* d[job['hash']] = job: replace in place, or insert at the end
DictSet(d, job) ==
    IF job.hash \in DictKeys(d)
    THEN [i \in 1..Len(d) |-> IF d[i].hash = job.hash THEN job ELSE d[i]]
    ELSE Append(d, job)

RECURSIVE DictUpdate(_, _)
\* for job in jobs: d[job['hash']] = job
DictUpdate(d, jobs) ==
    IF Len(jobs) = 0 THEN d ELSE DictUpdate(DictSet(d, Head(jobs)), Tail(jobs))

\* a load that takes the except branch every time
load_existing_jobs_always_empty(file, corrupt, read_ok) == << >>

\* load_existing_jobs: {} when the file cannot be read or parsed
load_existing_jobs(file, corrupt, read_ok) ==
    IF corrupt \/ ~read_ok THEN << >> ELSE DictUpdate(<< >>, file)

\* the outcomes of save_jobs on jobs.json: written; open() failed and the
\* file is as before; json.dump stopped part-way and the file is no JSON.
\* jobs.csv, written after it, is not part of the model.
SaveOutcomes == {"ok", "open_failed", "truncated"}

save_jobs_file(file, jobs, outcome) ==
    CASE outcome = "ok" -> jobs
      [] outcome = "open_failed" -> file
      [] OTHER -> << >>

save_jobs_corrupt(corrupt, outcome) ==
    CASE outcome = "ok" -> FALSE
      [] outcome = "open_failed" -> corrupt
      [] OTHER -> TRUE

\* stats['run_history'][-30:]
HistoryCap == 30

\* the slice [:n] in place of [-n:]
FirstN(s, n) == IF Len(s) <= n THEN s ELSE SubSeq(s, 1, n)

\* the slice [-n:]
LastN(s, n) == IF Len(s) <= n THEN s ELSE SubSeq(s, Len(s) - n + 1, Len(s))

\* update_stats when stats.json is read and written without an exception;
\* total is len(self.load_existing_jobs()), run is a history field naming
\* the run that appended the record
update_stats(stats, companies, new_jobs_count, total, now, run) ==
    [total_jobs_found |-> total,
     last_run |-> <<now>>,
     companies_scraped |-> companies,
     run_history |->
        LastN(Append(stats.run_history,
                     [date |-> now, new_jobs |-> new_jobs_count,
                      companies_scraped |-> Len(companies), run |-> run]),
              HistoryCap)]

\* the files initialize_files creates
InitialStats ==
    [total_jobs_found |-> 0, last_run |-> << >>, companies_scraped |-> << >>,
     run_history |-> << >>]

-----------------------------------------------------------------------------
(* run_scraper *)

\* time.sleep(3)
SleepSeconds == 3

\* the loop without its try: an exception that escapes the scrape ends the run
after_company_unguarded(done, raised) ==
    IF raised THEN "aborted"
    ELSE IF done = Len(Companies) THEN "merge" ELSE "loop"

\* where run_scraper goes when the iteration of a company is over: the except
\* clause logs an exception and the loop goes on
after_company(done, raised) ==
    IF done = Len(Companies) THEN "merge" ELSE "loop"

\* the sleep inside the try, behind the scrape: skipped when the scrape raises
company_events_sleep_in_try(k, raised) ==
    IF raised THEN << <<"scrape", k>> >>
    ELSE << <<"scrape", k>>, <<"sleep", SleepSeconds>> >>

\* what one iteration of the loop does towards the remote sites: the scrape
\* of company k in its try, then time.sleep(3) behind the try
company_events(k, raised) == << <<"scrape", k>>, <<"sleep", SleepSeconds>> >>

\* the list comprehension without its filter
truly_new_unfiltered(jobs, existing) == jobs

\* [job for job in jobs if job['hash'] not in existing_jobs]
truly_new(jobs, existing) ==
    SelectSeq(jobs, LAMBDA job : job.hash \notin DictKeys(existing))

RECURSIVE InsertBeforeEqual(_, _)
\* x placed in front of the elements whose date_found equals its own
InsertBeforeEqual(sorted, x) ==
    IF Len(sorted) = 0 THEN <<x>>
    ELSE IF Head(sorted).date_found > x.date_found
         THEN <<Head(sorted)>> \o InsertBeforeEqual(Tail(sorted), x)
         ELSE <<x>> \o sorted

RECURSIVE InsertByDateFound(_, _)
\* x placed behind every element whose date_found is not older than its own
InsertByDateFound(sorted, x) ==
    IF Len(sorted) = 0 THEN <<x>>
    ELSE IF Head(sorted).date_found >= x.date_found
         THEN <<Head(sorted)>> \o InsertByDateFound(Tail(sorted), x)
         ELSE <<x>> \o sorted

RECURSIVE SortByDateFoundDesc(_)
\* all_jobs.sort(key=lambda x: x['date_found'], reverse=True), a stable sort
SortByDateFoundDesc(jobs) ==
    IF Len(jobs) = 0 THEN << >>
    ELSE InsertByDateFound(SortByDateFoundDesc(SubSeq(jobs, 1, Len(jobs) - 1)),
                           jobs[Len(jobs)])

\* the two lists put one behind the other, with no dict between them
merge_jobs_by_concatenation(existing, fresh) == existing \o fresh

\* all_jobs_dict = existing_jobs.copy(); for job in new_jobs: all_jobs_dict[...] = job
merge_jobs(existing, fresh) == DictUpdate(existing, fresh)

Fingerprints(jobs) == {jobs[i].hash : i \in 1..Len(jobs)}

HashesOf(jobs) == [i \in 1..Len(jobs) |-> jobs[i].hash]

\* what the finished run leaves for the next one to compare with: kept only
\* for a run that started from an empty jobs.json and wrote it
RunSummary ==
    IF pc = "done" /\ io.started_empty /\ io.save = "ok"
    THEN << [returned |-> [k \in 1..Len(extracted) |-> HashesOf(extracted[k].jobs)],
             new_count |-> ret[1],
             fingerprints |-> Fingerprints(jobs_json)] >>
    ELSE << >>

\* data/jobs.json as earlier runs can have left it: postings found on day 1,
\* one per fingerprint, newest first
StoredPostings ==
    { AshbyJob("OpenAI", "openai", CHOOSE p \in AshbyPostings : p.id = "1", 1),
      MakeJob("Stripe", "Sr PM", "NY", "https://stripe.com/jobs", DateUnknown, 1) }

InitialStores ==
    {s \in SeqsUpTo(StoredPostings, Cardinality(StoredPostings)) :
        \A i, j \in 1..Len(s) : i # j => s[i].hash # s[j].hash}

RunInit(stores) ==
    /\ jobs_json \in stores
    /\ jobs_json_corrupt = FALSE
    /\ stats_json = InitialStats
    /\ today = 1
    /\ pc = "idle"
    /\ existing_jobs = << >>
    /\ new_jobs = << >>
    /\ idx = 0
    /\ all_jobs = << >>
    /\ ret = << >>
    /\ events = << >>
    /\ extracted = << >>
    /\ io = [started_empty |-> FALSE, save |-> "none", stats |-> "none"]
    /\ prev = << >>
    /\ runs = 0
    /\ stats_calls = 0

ClassifierIdle ==
    /\ cl_title = ""
    /\ cl_url = ""
    /\ cl_desc = ""
    /\ cl_result = "none"
    /\ fn_name = "none"
    /\ fn_args = << >>
    /\ fn_result = << >>

\* run_scraper is called: existing_jobs = self.load_existing_jobs();
\* reads holds the outcomes the read of jobs.json can have, limit the number
\* of runs followed
StartRunWith(reads, limit) ==
    /\ pc \in {"idle", "done"}
    /\ runs < limit
    /\ \E read_ok \in reads, day \in {today, today + 1} :
        /\ today' = day
        /\ existing_jobs' = load_existing_jobs(jobs_json, jobs_json_corrupt, read_ok)
        /\ io' = [started_empty |-> (jobs_json = << >> /\ ~jobs_json_corrupt),
                  save |-> "none", stats |-> "none"]
    /\ prev' = RunSummary
    /\ pc' = "loop"
    /\ new_jobs' = << >>
    /\ idx' = 0
    /\ all_jobs' = << >>
    /\ ret' = << >>
    /\ events' = << >>
    /\ extracted' = << >>
    /\ runs' = runs + 1
    /\ UNCHANGED <<store_vars, stats_calls, cl_vars, call_vars>>

\* one iteration of `for company, url in companies.items()`: the scrape in
\* its try, then the sleep
ScrapeCompany ==
    /\ pc = "loop"
    /\ idx < Len(Companies)
    /\ LET c == Companies[idx + 1] IN
        \/ \E reply \in RepliesFor(c.url) :
            LET jobs == scrape_company_jobs(c.company, c.url, reply, today) IN
            /\ new_jobs' = new_jobs \o truly_new(jobs, existing_jobs)
            /\ extracted' = Append(extracted,
                    [company |-> c.company, raised |-> FALSE,
                     failed |-> ExtractionFailed(c.url, reply), jobs |-> jobs])
            /\ pc' = after_company(idx + 1, FALSE)
            /\ events' = events \o company_events(idx + 1, FALSE)
        \/ \* an exception escapes scrape_company_jobs and is logged
            /\ new_jobs' = new_jobs
            /\ extracted' = Append(extracted,
                    [company |-> c.company, raised |-> TRUE,
                     failed |-> TRUE, jobs |-> << >>])
            /\ pc' = after_company(idx + 1, TRUE)
            /\ events' = events \o company_events(idx + 1, TRUE)
    /\ idx' = idx + 1
    /\ UNCHANGED <<store_vars, today, existing_jobs, all_jobs, ret, io, prev, runs,
                   stats_calls, cl_vars, call_vars>>

\* the dict merge and the sort
MergeJobs ==
    /\ pc = "merge"
    /\ all_jobs' = SortByDateFoundDesc(merge_jobs(existing_jobs, new_jobs))
    /\ pc' = "save"
    /\ UNCHANGED <<store_vars, today, existing_jobs, new_jobs, idx, ret, hist_vars, cl_vars, call_vars>>

\* self.save_jobs(all_jobs)
SaveJobsWith(outcomes) ==
    /\ pc = "save"
    /\ \E outcome \in outcomes :
        /\ jobs_json' = save_jobs_file(jobs_json, all_jobs, outcome)
        /\ jobs_json_corrupt' = save_jobs_corrupt(jobs_json_corrupt, outcome)
        /\ io' = [io EXCEPT !.save = outcome]
    /\ pc' = "stats"
    /\ UNCHANGED <<stats_json, today, existing_jobs, new_jobs, idx, all_jobs, ret,
                   events, extracted, prev, runs, stats_calls, cl_vars, call_vars>>

\* self.update_stats(companies, len(new_jobs)): stats_ok is FALSE when
\* reading or opening stats.json raises, read_ok is the read of jobs.json
\* inside it; io.stats becomes "failed", "ok", or "ok_unread" when the record
\* was written although jobs.json could not be read back
UpdateStatsWith(reads) ==
    /\ pc = "stats"
    /\ \E stats_ok \in reads, read_ok \in reads :
        IF stats_ok
        THEN /\ stats_json' = update_stats(stats_json, Companies, Len(new_jobs),
                    Len(load_existing_jobs(jobs_json, jobs_json_corrupt, read_ok)),
                    today, runs)
             /\ stats_calls' = stats_calls + 1
             /\ io' = [io EXCEPT !.stats = IF read_ok THEN "ok" ELSE "ok_unread"]
        ELSE /\ UNCHANGED <<stats_json, stats_calls>>
             /\ io' = [io EXCEPT !.stats = "failed"]
    /\ pc' = "report"
    /\ UNCHANGED <<jobs_json, jobs_json_corrupt, today, existing_jobs, new_jobs, idx,
                   all_jobs, ret, events, extracted, prev, runs, cl_vars, call_vars>>

\* create_html_report, then return len(new_jobs), len(all_jobs)
FinishRun ==
    /\ pc = "report"
    /\ ret' = <<Len(new_jobs), Len(all_jobs)>>
    /\ pc' = "done"
    /\ UNCHANGED <<store_vars, today, existing_jobs, new_jobs, idx, all_jobs,
                   hist_vars, cl_vars, call_vars>>

StartRun == StartRunWith(BOOLEAN, MaxRuns)

SaveJobs == SaveJobsWith(SaveOutcomes)

UpdateStats == UpdateStatsWith(BOOLEAN)

RunStep == ScrapeCompany \/ MergeJobs \/ SaveJobs \/ UpdateStats \/ FinishRun

Init == RunInit(InitialStores) /\ ClassifierIdle

Next == StartRun \/ RunStep

Spec == Init /\ [][Next]_vars

(* Runs from the empty store in which jobs.json and stats.json are read and
   written without a failure *)

StartRepeatRun == StartRunWith({TRUE}, MaxRepeatRuns)

SaveJobsOk == SaveJobsWith({"ok"})

UpdateStatsOk == UpdateStatsWith({TRUE})

RepeatInit == RunInit({<< >>}) /\ ClassifierIdle

RepeatNext ==
    StartRepeatRun \/ ScrapeCompany \/ MergeJobs \/ SaveJobsOk \/ UpdateStatsOk \/ FinishRun

SpecRepeat == RepeatInit /\ [][RepeatNext]_vars

(* update_stats called time after time, as the end of every run calls it *)

\* the new_jobs_count arguments: at most one record of the history at a time
\* reports a new posting
NewCounts(history) ==
    IF \E i \in 1..Len(history) : history[i].new_jobs > 0 THEN {0} ELSE {0, 1}

UpdateStatsCall ==
    /\ pc = "idle"
    /\ runs < MaxStatsRuns
    /\ \E n \in NewCounts(stats_json.run_history), stats_ok \in BOOLEAN :
        IF stats_ok
        THEN /\ stats_json' = update_stats(stats_json, Companies, n,
                    Len(load_existing_jobs(jobs_json, jobs_json_corrupt, TRUE)),
                    today, runs + 1)
             /\ stats_calls' = stats_calls + 1
        ELSE /\ runs - stats_calls < MaxStatsFailures
             /\ UNCHANGED <<stats_json, stats_calls>>
    /\ runs' = runs + 1
    /\ UNCHANGED <<jobs_json, jobs_json_corrupt, run_vars, events, extracted, io, prev,
                   cl_vars, call_vars>>

StatsNext == UpdateStatsCall

SpecStats == Init /\ [][StatsNext]_vars

-----------------------------------------------------------------------------
(* The classifier applied to bounded inputs *)

TitleHeads == {"", "N", "Senior ", "x - ", "The "}

TitleCores == {"", "PM", "pm", "Product Manager", "Product Marketing Manager"}

TitleTails == {"", ", Platform", " - Tools", " Lead", " Director", "s", "O", " Engineer"}

ClassifierTitles == {h \o c \o t : h \in TitleHeads, c \in TitleCores, t \in TitleTails}

ClassifierUrls ==
    {"", "https://x.co/jobs/1", "https://x.co/blog/jobs/1", "https://x.co/team"}

ClassifierDescriptions == {"", "read more"}

BoolText(b) == IF b THEN "true" ELSE "false"

ClassifyInit ==
    /\ RunInit({<< >>})
    /\ cl_title \in ClassifierTitles
    /\ cl_url \in ClassifierUrls
    /\ cl_desc \in ClassifierDescriptions
    /\ cl_result = "none"
    /\ fn_name = "none"
    /\ fn_args = << >>
    /\ fn_result = << >>

Classify ==
    /\ cl_result = "none"
    /\ cl_result' = BoolText(is_product_management_job(cl_title, cl_url, cl_desc))
    /\ UNCHANGED <<cl_title, cl_url, cl_desc, store_vars, run_vars, hist_vars, call_vars>>

ClassifyNext == Classify

SpecClassify == ClassifyInit /\ [][ClassifyNext]_vars

-----------------------------------------------------------------------------
(* The dispatcher, the fingerprint and the Ashby extractor applied to bounded inputs *)

DispatchUrls ==
    {"", "https://stripe.com/jobs", "https://jobs.ashbyhq.com/openai/?d=1",
     "https://job-boards.greenhouse.io/anthropic",
     "https://greenhouse.io/?from=ashbyhq.com",
     "https://ashbyhq.com/?from=greenhouse.io"}

\* postings in every field create_job_hash reads or leaves aside
HashJobs ==
    [company : {"A", "Ac"}, title : {"PM", "cPM"}, location : {"", "NY"},
     url : {"https://a.co/jobs/1", "https://a.co/jobs/2"},
     date_posted : {DateUnknown, <<1>>}, date_found : {1, 2},
     status : {"active", "closed"}]

\* jobPostings entries in the fields the location string is built from
LocationPostings ==
    [id : {"1"}, title : {"PM"}, teamName : {""},
     locationName : {"Remote", "SF"},
     secondaryLocations : {<< >>, <<"">>, <<"", "Berlin">>,
                           <<"New York, NY", "London, UK">>},
     workplaceType : {"", "null", "Hybrid"}, wellformed : {TRUE}]

\* the most candidate elements a page of this harness holds
LongestPage == 51

RECURSIVE DigitsOf(_)
\* the decimal numeral of a natural number
DigitsOf(n) ==
    IF n < 10 THEN CharAt(DigitChars, n + 1)
    ELSE DigitsOf(n \div 10) \o CharAt(DigitChars, (n % 10) + 1)

\* pages of 0, 1, 50 and more candidate elements, each element a posting
\* with a Product-Management title of its own
LongPages ==
    {[kind |-> "page",
      items |-> [i \in 1..n |->
                    [title |-> "Sr PM " \o DigitsOf(i), location |-> "NY",
                     href |-> "", description |-> "",
                     text |-> "Sr PM " \o DigitsOf(i) \o " NY",
                     wellformed |-> TRUE]]] :
        n \in {0, 1, ElementCap, LongestPage}}

\* the largest N of the texts 'N days ago', 'N weeks ago', 'N months ago'
MaxAgo == 12

\* the words that follow the number of a relative date
AgoWords == {" days ago", " weeks ago", " months ago", " day ago", " week ago", " month ago"}

\* element texts: relative dates, alone and inside other text, the two day
\* words, absolute dates, a month-name date, and texts without a date
DateTexts ==
    {DigitsOf(n) \o w : n \in 0..MaxAgo, w \in AgoWords}
    \cup {"today", "yesterday", "Today", "Posted 3 days ago", "Posted 20 days ago",
          "Posted today 3 days ago", "100 days ago", "123 weeks ago",
          "3/15/2024", "3-15-24", "2/30/2024", "13/45/2024", "Jan 5, 2024",
          "7days ago", "Apply now", "Sr PM NY", ""}

\* the days the date calls are made on: 2024-03-01 and 2026-11-05
CallDays == {Ordinal(2024, 3, 1), Ordinal(2026, 11, 5)}

CallInit ==
    /\ RunInit({<< >>})
    /\ cl_title = ""
    /\ cl_url = ""
    /\ cl_desc = ""
    /\ cl_result = "none"
    /\ fn_result = << >>
    /\ \/ fn_name = "get_parser_for_url" /\ fn_args \in {<<u>> : u \in DispatchUrls}
       \/ fn_name = "create_job_hash" /\ fn_args \in HashJobs \X HashJobs
       \/ fn_name = "AshbyParser.location" /\ fn_args \in {<<j>> : j \in LocationPostings}
       \/ fn_name = "AshbyParser.parse_jobs"
            /\ fn_args \in {<<Companies[1].company, Companies[1].url, r>> :
                                r \in AshbyReplies}
       \/ fn_name = "GreenhouseParser.parse_jobs"
            /\ fn_args \in {<<"Anthropic", "https://job-boards.greenhouse.io/anthropic", r>> :
                                r \in LongPages}
       \/ fn_name = "GenericParser.parse_jobs"
            /\ fn_args \in {<<Companies[2].company, Companies[2].url, r>> :
                                r \in LongPages}
       \/ fn_name = "extract_date_posted" /\ fn_args \in DateTexts \X CallDays

\* self.get_parser_for_url(url), by the name of the parser's class
CallGetParserForUrl ==
    /\ fn_name = "get_parser_for_url"
    /\ fn_result = << >>
    /\ fn_result' = <<get_parser_for_url(fn_args[1])>>
    /\ UNCHANGED <<fn_name, fn_args, store_vars, run_vars, hist_vars, cl_vars>>

\* create_job_hash applied to each of two postings
CallCreateJobHash ==
    /\ fn_name = "create_job_hash"
    /\ fn_result = << >>
    /\ fn_result' = <<create_job_hash(fn_args[1]), create_job_hash(fn_args[2])>>
    /\ UNCHANGED <<fn_name, fn_args, store_vars, run_vars, hist_vars, cl_vars>>

\* the location string parse_jobs builds for one posting
CallAshbyLocation ==
    /\ fn_name = "AshbyParser.location"
    /\ fn_result = << >>
    /\ fn_result' = <<AshbyLocation(fn_args[1])>>
    /\ UNCHANGED <<fn_name, fn_args, store_vars, run_vars, hist_vars, cl_vars>>

\* AshbyParser.parse_jobs(company, url) with the reply its request gets
CallAshbyParse ==
    /\ fn_name = "AshbyParser.parse_jobs"
    /\ fn_result = << >>
    /\ fn_result' = <<AshbyParse(fn_args[1], fn_args[2], fn_args[3], today)>>
    /\ UNCHANGED <<fn_name, fn_args, store_vars, run_vars, hist_vars, cl_vars>>

\* GreenhouseParser.parse_jobs(company, url) with the page its request gets
CallGreenhouseParse ==
    /\ fn_name = "GreenhouseParser.parse_jobs"
    /\ fn_result = << >>
    /\ fn_result' = <<GreenhouseParse(fn_args[1], fn_args[2], fn_args[3], today)>>
    /\ UNCHANGED <<fn_name, fn_args, store_vars, run_vars, hist_vars, cl_vars>>

\* GenericParser.parse_jobs(company, url) with the page its request gets
CallGenericParse ==
    /\ fn_name = "GenericParser.parse_jobs"
    /\ fn_result = << >>
    /\ fn_result' = <<GenericParse(fn_args[1], fn_args[2], fn_args[3], today)>>
    /\ UNCHANGED <<fn_name, fn_args, store_vars, run_vars, hist_vars, cl_vars>>

\* self.extract_date_posted(element) for an element of the given text, on
\* the day datetime.now() falls on
CallExtractDatePosted ==
    /\ fn_name = "extract_date_posted"
    /\ fn_result = << >>
    /\ fn_result' = <<extract_date_posted(fn_args[1], fn_args[2])>>
    /\ UNCHANGED <<fn_name, fn_args, store_vars, run_vars, hist_vars, cl_vars>>

CallNext ==
    \/ CallGetParserForUrl \/ CallCreateJobHash \/ CallAshbyLocation \/ CallAshbyParse
    \/ CallGreenhouseParse \/ CallGenericParse \/ CallExtractDatePosted

SpecCalls == CallInit /\ [][CallNext]_vars

-----------------------------------------------------------------------------
(* Properties *)

\* the positions of run_scraper behind the merge
AfterMerge == {"save", "stats", "report", "done"}

\* every posting an extractor returned in this run, in extraction order
RECURSIVE ReturnedFrom(_)
ReturnedFrom(records) ==
    IF Len(records) = 0 THEN << >>
    ELSE Head(records).jobs \o ReturnedFrom(Tail(records))

Returned == ReturnedFrom(extracted)

HasEntry(jobs, hash) == \E i \in 1..Len(jobs) : jobs[i].hash = hash

EntryAt(jobs, hash) == jobs[CHOOSE i \in 1..Len(jobs) : jobs[i].hash = hash]

\* the last posting of the list that carries the fingerprint
LastWith(jobs, hash) ==
    jobs[CHOOSE i \in 1..Len(jobs) :
            /\ jobs[i].hash = hash
            /\ \A j \in (i + 1)..Len(jobs) : jobs[j].hash # hash]

C2_StoredFingerprintsPersist ==
    [][io'.save # "truncated" =>
            Fingerprints(jobs_json) \subseteq Fingerprints(jobs_json')]_vars

\* the lists of fingerprints the extractors returned in this run, per company
ReturnedHashes == [k \in 1..Len(extracted) |-> HashesOf(extracted[k].jobs)]

\* C3: when a run from the empty store and the run after it got the same
\* lists from the extractors, the first reported as many new postings as the
\* lists hold, the second reports none and leaves the stored fingerprints as
\* they were
C3_SecondRunFindsNothingNew ==
    (pc = "done" /\ prev # << >> /\ ReturnedHashes = prev[1].returned) =>
        /\ prev[1].new_count = Len(Returned)
        /\ ret[1] = 0
        /\ Fingerprints(jobs_json) = prev[1].fingerprints

\* C3 witness: the second of two such runs is over, both companies returned
\* postings, one of them the same posting twice
C3_Witness ==
    /\ pc = "done"
    /\ prev # << >>
    /\ ReturnedHashes = prev[1].returned
    /\ Len(extracted[1].jobs) = 2
    /\ Len(extracted[2].jobs) = 1
    /\ prev[1].new_count = 3
    /\ ret[1] = 0

\* C4: the run history holds as many records as update_stats calls have
\* completed, up to 30; they are in run order; and when every call completed
\* they are the records of the last min(k, 30) of the k runs, one after the other
C4_HistoryKeepsLast30 ==
    LET h == stats_json.run_history IN
    /\ Len(h) = Min(stats_calls, HistoryCap)
    /\ \A i \in 1..(Len(h) - 1) : h[i].run < h[i + 1].run
    /\ \A i \in 1..Len(h) : h[i].run <= runs
    /\ stats_calls = runs => \A i \in 1..Len(h) : h[i].run = runs - Len(h) + i

\* C4 witness: 35 calls, all completed: the history holds the runs 6..35
C4_Witness ==
    /\ runs = 35
    /\ stats_calls = 35
    /\ Len(stats_json.run_history) = 30
    /\ stats_json.run_history[1].run = 6
    /\ stats_json.run_history[30].run = 35

\* the companies scraped so far in this run, in the order of the events
ScrapedCompanies ==
    LET scrapes == SelectSeq(events, LAMBDA e : e[1] = "scrape")
    IN  [k \in 1..Len(scrapes) |-> scrapes[k][2]]

\* C5: the companies are scraped once each in configured order whichever of
\* them fail; behind the last one the run is at the merge, and a run that
\* has started can always take its next step up to the return of its counts
C5_EveryCompanyScrapedInOrder ==
    /\ pc \in {"idle", "loop", "merge", "save", "stats", "report", "done"}
    /\ ScrapedCompanies = [k \in 1..idx |-> k]
    /\ Len(extracted) = idx
    /\ pc = "loop" => idx < Len(Companies)
    /\ pc \in AfterMerge \cup {"merge"} => idx = Len(Companies)
    /\ pc \in {"loop", "merge", "save", "stats", "report"} => ENABLED RunStep
    /\ pc = "done" => ret = <<Len(new_jobs), Len(all_jobs)>>

\* C5 witness: a run has returned its counts although the first company
\* failed in its parser and the scrape of the second raised
C5_Witness ==
    /\ pc = "done"
    /\ ret # << >>
    /\ extracted[1].failed /\ ~extracted[1].raised
    /\ extracted[2].raised

\* C6 as the spec states it: a company whose extraction hit a transport
\* failure or a malformed response has no posting among the new postings of
\* the run
C6_FailedCompanyContributesNothing ==
    \A k \in 1..Len(extracted) :
        extracted[k].failed =>
            \A i \in 1..Len(new_jobs) : new_jobs[i].company # extracted[k].company

\* C7: jobs.json never holds two postings with the same fingerprint
C7_NoDuplicateFingerprints ==
    \A i, j \in 1..Len(jobs_json) : i # j => jobs_json[i].hash # jobs_json[j].hash

\* C7 witness: jobs.json was written by a run in which one company returned
\* the same posting twice and another returned a posting already stored
C7_Witness ==
    /\ pc = "done"
    /\ io.save = "ok"
    /\ \E k \in 1..Len(extracted) :
        /\ Len(extracted[k].jobs) = 2
        /\ extracted[k].jobs[1].hash = extracted[k].jobs[2].hash
    /\ \E k \in 1..Len(extracted) :
        /\ Len(extracted[k].jobs) = 1
        /\ HasEntry(existing_jobs, extracted[k].jobs[1].hash)
    /\ Len(jobs_json) = 2

\* C8 as the spec states it: the total_jobs_found a run writes is the size of
\* the merged store of that run, whatever the outcome of save_jobs (the runs
\* in which update_stats could not read jobs.json back are left aside)
C8_StatsTotalIsMergedSize ==
    (pc \in {"report", "done"} /\ io.stats = "ok") =>
        stats_json.total_jobs_found = Len(all_jobs)

\* C9: the classifier rejects the empty title for every url and description
C9_EmptyTitleRejected ==
    (cl_title = "" /\ cl_result # "none") => cl_result = "false"

\* C9 witness: the empty title classified with a url that passes both url gates
C9_Witness ==
    /\ cl_title = ""
    /\ cl_url = "https://x.co/jobs/1"
    /\ cl_result = "false"

\* the Product-Management phrases that spell the role out
spelled_out_patterns ==
    << "product manager", "product management", "director of product",
       "director, product", "director product", "head of product", "vp product",
       "vp of product", "product lead", "product owner" >>

\* "pm" occurs in the title, and every occurrence has a word character next to it
PmOnlyInsideWord(title_lower) ==
    Contains(title_lower, "pm") /\ ~PmWordMatch(title_lower)

\* C10 as the spec states it: a title that has "pm" only inside a longer word
\* and no spelled-out phrase is never a match, and 'Senior PM, Platform' is
\* a match when the url gates let it through
C10_EmbeddedPmNeverMatches ==
    cl_result # "none" =>
        /\ (PmOnlyInsideWord(Lower(cl_title))
            /\ ~AnyPatternIn(spelled_out_patterns, Lower(cl_title)))
                => cl_result = "false"
        /\ (cl_title = "Senior PM, Platform" /\ cl_url \in {"", "https://x.co/jobs/1"})
                => cl_result = "true"

\* whether the url gets through the exclusion loop and the inclusion test
PassesUrlGates(url) ==
    /\ ~AnyPatternIn(excluded_url_patterns, Lower(url))
    /\ (url = "" \/ AnyPatternIn(job_url_patterns, Lower(url)))

\* C11 as the spec states it: 'Product Marketing Manager' is classified as a
\* match for the empty url and for a url that passes both url gates
C11_ProductMarketingManagerAccepted ==
    (cl_title = "Product Marketing Manager" /\ PassesUrlGates(cl_url)
     /\ cl_desc = "" /\ cl_result # "none") => cl_result = "true"

\* C12: a url that contains an excluded pattern makes the classifier reject,
\* whatever the title and the description are and whatever else the url holds
C12_UrlExclusionFirst ==
    (cl_result # "none" /\ AnyPatternIn(excluded_url_patterns, Lower(cl_url)))
        => cl_result = "false"

\* C12 witness: a Product-Management title rejected for a url that holds both
\* the excluded '/blog/' and the job-listing '/jobs/'
C12_Witness ==
    /\ cl_title = "Senior PM, Platform"
    /\ cl_url = "https://x.co/blog/jobs/1"
    /\ Contains(cl_url, "/jobs/")
    /\ cl_result = "false"

\* C13: a non-empty url with no job-listing pattern makes the classifier
\* reject; the empty url and a url that passes both gates give the result
\* the same title has with the empty url
C13_UrlInclusionGate ==
    cl_result # "none" =>
        /\ (cl_url # "" /\ ~AnyPatternIn(job_url_patterns, Lower(cl_url)))
                => cl_result = "false"
        /\ PassesUrlGates(cl_url)
                => cl_result = BoolText(is_product_management_job(cl_title, "", cl_desc))

\* C13 witness: a Product-Management title rejected for a url that has no
\* job-listing pattern and no excluded pattern
C13_Witness ==
    /\ cl_title = "Product Manager"
    /\ cl_url = "https://x.co/team"
    /\ ~AnyPatternIn(excluded_url_patterns, Lower(cl_url))
    /\ cl_result = "false"

\* C14 as the spec states it: a call whose title and description together
\* contain a boilerplate phrase of navigation or marketing links is rejected
C14_BoilerplateRejected ==
    (cl_result # "none"
     /\ AnyPatternIn(<< "read more", "learn more", "pricing" >>,
                     Lower(cl_title \o " " \o cl_desc)))
        => cl_result = "false"

\* C15 as the spec states it: from a well-formed reply the Ashby extractor
\* returns every posting whose title the classifier accepts or whose team
\* name denotes Product Management
C15_ProductTeamPostingIncluded ==
    (fn_name = "AshbyParser.parse_jobs" /\ fn_result # << >>) =>
        LET reply == fn_args[3]
            jobs == fn_result[1]
        IN  (reply.kind = "board"
             /\ \A k \in 1..Len(reply.items) : reply.items[k].wellformed) =>
                \A k \in 1..Len(reply.items) :
                    LET p == reply.items[k] IN
                    (\/ is_product_management_job(p.title, "", "")
                     \/ Contains(Lower(p.teamName), "product management")) =>
                        \E i \in 1..Len(jobs) :
                            /\ jobs[i].title = p.title
                            /\ jobs[i].url =
                                "https://jobs.ashbyhq.com/openai/" \o p.id

\* C16: get_parser_for_url always returns one of the three parsers: the
\* Ashby parser when the url holds 'ashbyhq.com' (also when it holds
\* 'greenhouse.io' too), else the Greenhouse parser when it holds
\* 'greenhouse.io', and the generic parser exactly when it holds neither
C16_FirstAcceptingParser ==
    (fn_name = "get_parser_for_url" /\ fn_result # << >>) =>
        LET url == fn_args[1]
            parser == fn_result[1]
            ashby == Contains(url, "ashbyhq.com")
            greenhouse == Contains(url, "greenhouse.io")
        IN  /\ parser \in {"AshbyParser", "GreenhouseParser", "GenericParser"}
            /\ ashby => parser = "AshbyParser"
            /\ (~ashby /\ greenhouse) => parser = "GreenhouseParser"
            /\ parser = "GenericParser" <=> (~ashby /\ ~greenhouse)

\* C16 witness: a url that names both hosts, the Greenhouse one first, got
\* the Ashby parser
C16_Witness ==
    /\ fn_name = "get_parser_for_url"
    /\ fn_args = <<"https://greenhouse.io/?from=ashbyhq.com">>
    /\ fn_result = <<"AshbyParser">>

\* C17: two postings equal in company, title and location get the same
\* fingerprint whatever their other fields are, and two postings that
\* differ in exactly one of the three fields get different hashed strings
C17_HashOfCompanyTitleLocation ==
    (fn_name = "create_job_hash" /\ fn_result # << >>) =>
        LET a == fn_args[1]
            b == fn_args[2]
            differing == {f \in {"company", "title", "location"} : a[f] # b[f]}
        IN  /\ differing = {} => fn_result[1] = fn_result[2]
            /\ Cardinality(differing) = 1 => fn_result[1][2] # fn_result[2][2]

\* C17 witness: two postings that differ in url, date_posted, date_found and
\* status and in none of the three fields, with one fingerprint
C17_Witness ==
    /\ fn_name = "create_job_hash"
    /\ fn_result # << >>
    /\ fn_args[1].url # fn_args[2].url
    /\ fn_args[1].date_posted # fn_args[2].date_posted
    /\ fn_args[1].date_found # fn_args[2].date_found
    /\ fn_args[1].status # fn_args[2].status
    /\ fn_args[1].company = fn_args[2].company
    /\ fn_args[1].title = fn_args[2].title
    /\ fn_args[1].location = fn_args[2].location
    /\ fn_result[1] = fn_result[2]

RECURSIVE CommaList(_)
\* the names one after the other with ', ' between them
CommaList(names) ==
    IF Len(names) = 0 THEN ""
    ELSE IF Len(names) = 1 THEN names[1]
    ELSE CommaList(SubSeq(names, 1, Len(names) - 1)) \o ", " \o names[Len(names)]

\* C18: the location string is the primary location, then ' (+ a, b)' with
\* the non-empty secondary names when there is one, then ' - <type>' when
\* the workplace type is neither absent nor the null sentinel
C18_LocationAssembly ==
    (fn_name = "AshbyParser.location" /\ fn_result # << >>) =>
        LET job == fn_args[1]
            named == SelectSeq(job.secondaryLocations, LAMBDA n : Len(n) > 0)
            secondary == IF Len(named) = 0 THEN ""
                         ELSE " (+ " \o CommaList(named) \o ")"
            workplace == IF job.workplaceType = "" \/ job.workplaceType = "null"
                         THEN ""
                         ELSE " - " \o job.workplaceType
        IN  fn_result[1] = job.locationName \o secondary \o workplace

\* C18 witness: primary 'Remote', two secondary locations and type 'Hybrid'
C18_Witness ==
    /\ fn_name = "AshbyParser.location"
    /\ fn_args[1].locationName = "Remote"
    /\ fn_args[1].secondaryLocations = <<"New York, NY", "London, UK">>
    /\ fn_args[1].workplaceType = "Hybrid"
    /\ fn_result = <<"Remote (+ New York, NY, London, UK) - Hybrid">>

\* where the merged dict holds the fingerprint: the entries of the loaded
\* store in stored order, then the new postings in the order of extraction
MergedPosition(hash) ==
    IF HasEntry(existing_jobs, hash)
    THEN CHOOSE i \in 1..Len(existing_jobs) : existing_jobs[i].hash = hash
    ELSE Len(existing_jobs)
         + (CHOOSE i \in 1..Len(new_jobs) :
                /\ new_jobs[i].hash = hash
                /\ \A j \in 1..(i - 1) : new_jobs[j].hash # hash)

\* C19: the list a run has written to jobs.json is in descending order of
\* date_found, and postings of one date_found are in the order the merged
\* store had them
C19_PersistedNewestFirstStable ==
    (pc \in {"stats", "report", "done"} /\ io.save = "ok") =>
        \A i, j \in 1..Len(jobs_json) :
            i < j =>
                /\ jobs_json[i].date_found >= jobs_json[j].date_found
                /\ jobs_json[i].date_found = jobs_json[j].date_found
                    => MergedPosition(jobs_json[i].hash)
                        < MergedPosition(jobs_json[j].hash)

\* C19 witness: a run wrote a stored posting and a new one found on the
\* same day, in this order
C19_Witness ==
    /\ pc = "done"
    /\ io.save = "ok"
    /\ Len(existing_jobs) = 1
    /\ Len(new_jobs) = 1
    /\ new_jobs[1].date_found = existing_jobs[1].date_found
    /\ jobs_json = existing_jobs \o new_jobs

\* C20: every scrape of a company is followed by one sleep of 3 seconds, and
\* nothing but that sleep lies between it and the scrape of the next company
C20_OneDelayBetweenFetches ==
    \A i \in 1..Len(events) :
        events[i][1] = "scrape" =>
            /\ i + 1 <= Len(events)
            /\ events[i + 1] = <<"sleep", 3>>
            /\ i + 2 <= Len(events) => events[i + 2] = <<"scrape", events[i][2] + 1>>

\* C20 witness: the scrape of the first company raised, the second company
\* returned nothing, and a delay followed each
C20_Witness ==
    /\ Len(extracted) = 2
    /\ extracted[1].raised
    /\ ~extracted[2].raised /\ extracted[2].jobs = << >>
    /\ events = << <<"scrape", 1>>, <<"sleep", 3>>, <<"scrape", 2>>, <<"sleep", 3>> >>

\* C23 as the spec states it: the new count a run returns is the number of
\* fingerprints the merged store holds and the loaded store did not, and it
\* is not above the returned total
C23_NewCountIsNewFingerprints ==
    pc = "done" =>
        /\ ret[1] = Cardinality(Fingerprints(all_jobs) \ Fingerprints(existing_jobs))
        /\ ret[1] <= ret[2]

\* C24 as the spec states it: two postings that differ in company, title or
\* location never give create_job_hash the same string to hash
C24_HashedStringDeterminesTriple ==
    (fn_name = "create_job_hash" /\ fn_result # << >>) =>
        LET a == fn_args[1]
            b == fn_args[2]
        IN  <<a.company, a.title, a.location>> # <<b.company, b.title, b.location>>
                => fn_result[1][2] # fn_result[2][2]

\* C22 as the spec states it: a markup extractor, the Greenhouse one or the
\* generic one, returns at most 50 postings for a page, however many
\* candidate elements the page has
C22_AtMostFiftyElementsPerPage ==
    (fn_name \in {"GreenhouseParser.parse_jobs", "GenericParser.parse_jobs"}
     /\ fn_result # << >>) => Len(fn_result[1]) <= 50

\* C21: on any day, the element text 'N days ago' is normalised to today minus
\* N days, 'N weeks ago' to today minus 7*N days and 'N months ago' to today
\* minus 30*N days, for every N >= 0; 'today' gives today, 'yesterday' gives
\* today minus one day, and a text with no date pattern gives 'Unknown'.
C21_RelativeDatesNormalised ==
    (fn_name = "extract_date_posted" /\ fn_result # << >>) =>
        LET text == fn_args[1]
            now == fn_args[2]
            date == fn_result[1]
        IN  /\ \A n \in 0..MaxAgo :
                /\ text = DigitsOf(n) \o " days ago" => date = <<now - n>>
                /\ text = DigitsOf(n) \o " weeks ago" => date = <<now - 7 * n>>
                /\ text = DigitsOf(n) \o " months ago" => date = <<now - 30 * n>>
            /\ text = "today" => date = <<now>>
            /\ text = "yesterday" => date = <<now - 1>>
            /\ text \in {"Apply now", "Sr PM NY", ""} => date = DateUnknown

====
